---- MODULE Spec2Model ----
(***************************************************************************)
(* Model of scml_libs: the contract signer (SCMLContractsSigner.py) with   *)
(* sign (ILP), greedy_signer and is_sign_plan_consistent, and the business *)
(* plan (SCMLBusinessPlan.py) with compute_min_expectation, get_minima and *)
(* compute_business_plan.                                                  *)
(*                                                                         *)
(* Arithmetic.  The code computes in floating point; the model computes    *)
(* exactly in integers.  A unit price is an integer number of hundredths   *)
(* (110.0 is 11000, 11.01 is 1101) and a trust probability an integer      *)
(* number of hundredths (0.75 is 75, the range [0,1] is 0..100), so a      *)
(* profit of the model is 10000 times the profit of the code.              *)
(*                                                                         *)
(* Indices.  Python positions 0..n-1 are the TLA+ positions 1..n: the      *)
(* master_index and sub_index of the model are the code's plus one.        *)
(* Times are kept as in the code (0 is the first time step).               *)
(*                                                                         *)
(* Optional values.  None is the empty sequence and a value v that is      *)
(* present is the one-element sequence <<v>>.  In a list of signatures     *)
(* None is the string "None".                                              *)
(***************************************************************************)
EXTENDS Integers, Sequences, FiniteSets, TLC

VARIABLES agreements, trust_probabilities, sign_out, greedy_out,
          sign_check, greedy_check,
          resign_out, me_in, me_out, bp_in, bp_out, bp_status,
          sign_again, greedy_again, rb_in, rb_out

\* The values of the variables of one time step as reported by the solver,
\* and the plan entries read from them.
readback_vars == <<rb_in, rb_out>>

\* The results of a repeated call of sign and of greedy_signer.
again_vars == <<sign_again, greedy_again>>

\* The state of the calls that a signer action leaves alone: the second
\* run of sign and the business plan (SCMLBusinessPlan.py).
plan_vars == <<resign_out, me_in, me_out, bp_in, bp_out, bp_status, again_vars, readback_vars>>

\* The state of the signer, which a business-plan action leaves alone.
signer_vars == <<agreements, trust_probabilities, sign_out, greedy_out,
                 sign_check, greedy_check>>

vars == <<agreements, trust_probabilities, sign_out, greedy_out,
          sign_check, greedy_check,
          resign_out, me_in, me_out, bp_in, bp_out, bp_status,
          sign_again, greedy_again, rb_in, rb_out>>

(***************************************************************************)
(* Bounds of the explored inputs.                                          *)
(***************************************************************************)
MaxLen == 2
MaxTime == 2
MaxUnitLen == 3
MaxBadLen == 2

AGENT_ID == "Monty"
OTHER_AGENT_ID == "OTHER"

None == <<>>
Some(v) == <<v>>
NoSignature == "None"

Max(a, b) == IF a >= b THEN a ELSE b

(***************************************************************************)
(* Inputs.  An agreement is a negmas Contract reduced to the fields the    *)
(* signer reads: agreement['quantity'], agreement['time'],                 *)
(* agreement['unit_price'], annotation['is_buy'] and partners.             *)
(***************************************************************************)
Contract(q, t, p, b, ps) ==
    [quantity |-> q, time |-> t, unit_price |-> p, is_buy |-> b, partners |-> ps]

Quantities == {1, 2}

Prices == {0, 100}

UnitTimes == {0, 1, 2}

ValidPartners == {<<AGENT_ID, OTHER_AGENT_ID>>}

\* Partner lists of every shape find_partner_trust distinguishes.
AnyPartners ==
    { <<AGENT_ID, OTHER_AGENT_ID>>, <<OTHER_AGENT_ID, AGENT_ID>>,
      <<"THIRD", AGENT_ID>>,
      <<AGENT_ID>>, <<AGENT_ID, OTHER_AGENT_ID, "THIRD">>,
      <<AGENT_ID, AGENT_ID>>, <<OTHER_AGENT_ID, "THIRD">>,
      <<AGENT_ID, "UNKNOWN">>, <<"OVER", AGENT_ID>>, <<AGENT_ID, "UNDER">> }

\* SCMLSignerTests.DEFAULT_TRUST_PROB
DEFAULT_TRUST_PROB == [x \in {OTHER_AGENT_ID} |-> 75]

\* A trust table with the two ends of [0,1] and two values outside of it.
WideTrustTable ==
    [x \in {OTHER_AGENT_ID, "THIRD", "OVER", "UNDER"} |->
        CASE x = OTHER_AGENT_ID -> 100
          [] x = "THIRD" -> 0
          [] x = "OVER" -> 150
          [] x = "UNDER" -> -50]

ValidAgreements ==
    { Contract(q, t, p, b, ps) :
        q \in Quantities, t \in 0..MaxTime, p \in Prices,
        b \in BOOLEAN, ps \in ValidPartners }

\* Agreements of quantity 1, for the longer lists.
UnitAgreements ==
    { Contract(1, t, p, b, ps) :
        t \in UnitTimes, p \in Prices, b \in BOOLEAN, ps \in ValidPartners }

AnyAgreements ==
    { Contract(1, 1, 100, b, ps) : b \in BOOLEAN, ps \in AnyPartners }

SeqsUpTo(S, n) == UNION { [1..k -> S] : k \in 0..n }

E(q, t, p, b) == Contract(q, t, p, b, <<AGENT_ID, OTHER_AGENT_ID>>)

\* test_manual_agreements_for_visual_inspection
ManualAgreements ==
    << E(1, 6, 11000, FALSE), E(1, 4, 1000, TRUE),
       E(1, 1, 1200, FALSE), E(1, 5, 1101, FALSE) >>

\* test_greedy_solver
GreedyTestAgreements ==
    << E(1, 6, 11000, FALSE), E(1, 4, 1000, TRUE), E(1, 3, 10000, TRUE),
       E(2, 1, 1200, FALSE), E(1, 5, 1101, FALSE) >>

NotRun == [status |-> "not_run"]

\* No call of the business plan is made: its inputs are absent.
NoInput == [kind |-> "none"]

PlanIdle ==
    /\ resign_out = NotRun
    /\ sign_again = NotRun
    /\ greedy_again = NotRun
    /\ rb_in = NoInput
    /\ rb_out = NotRun
    /\ me_in = NoInput
    /\ me_out = NotRun
    /\ bp_in = NoInput
    /\ bp_out = NotRun
    /\ bp_status = "not_run"

Init ==
    /\ \/ /\ agreements \in SeqsUpTo(ValidAgreements, MaxLen)
          /\ trust_probabilities = DEFAULT_TRUST_PROB
       \/ /\ agreements \in SeqsUpTo(UnitAgreements, MaxUnitLen)
          /\ trust_probabilities = DEFAULT_TRUST_PROB
       \/ /\ agreements \in SeqsUpTo(AnyAgreements, MaxBadLen)
          /\ trust_probabilities = WideTrustTable
       \/ /\ agreements \in {ManualAgreements, GreedyTestAgreements}
          /\ trust_probabilities = DEFAULT_TRUST_PROB
    /\ sign_out = NotRun
    /\ greedy_out = NotRun
    /\ sign_check = "not_run"
    /\ greedy_check = "not_run"
    /\ PlanIdle

(***************************************************************************)
(* find_partner_trust: the five assertions, in the order of the code.      *)
(***************************************************************************)
Partner(agent_id, agreement) ==
    IF agreement.partners[1] # agent_id
    THEN agreement.partners[1] ELSE agreement.partners[2]

\* Mutant: the trust value is not checked to be a probability.
find_partner_trust_asserts_no_range(agent_id, agreement, trust) ==
    /\ Len(agreement.partners) = 2
    /\ agreement.partners[1] # agreement.partners[2]
    /\ agreement.partners[1] = agent_id \/ agreement.partners[2] = agent_id
    /\ Partner(agent_id, agreement) \in DOMAIN trust

find_partner_trust_asserts(agent_id, agreement, trust) ==
    /\ Len(agreement.partners) = 2
    /\ agreement.partners[1] # agreement.partners[2]
    /\ agreement.partners[1] = agent_id \/ agreement.partners[2] = agent_id
    /\ Partner(agent_id, agreement) \in DOMAIN trust
    /\ 0 <= trust[Partner(agent_id, agreement)]
    /\ trust[Partner(agent_id, agreement)] <= 100

find_partner_trust(agent_id, agreement, trust) ==
    trust[Partner(agent_id, agreement)]

(***************************************************************************)
(* partition_agreements: the tuple of agreement i and the two sides, each  *)
(* in input order.  It raises when find_partner_trust does for some i.     *)
(***************************************************************************)
agreement_tuple(agent_id, ags, trust, i) ==
    [master_index |-> i,
     quantity |-> ags[i].quantity,
     time |-> ags[i].time,
     price |-> ags[i].unit_price,
     partner_trust |-> find_partner_trust(agent_id, ags[i], trust)]

RECURSIVE partition_side(_, _, _, _, _)
partition_side(agent_id, ags, trust, i, side) ==
    IF i > Len(ags) THEN <<>>
    ELSE (IF ags[i].is_buy = side
          THEN <<agreement_tuple(agent_id, ags, trust, i)>> ELSE <<>>)
         \o partition_side(agent_id, ags, trust, i + 1, side)

\* Mutant: partition_agreements also rejects a negative quantity.
partition_raises_on_negative_quantity(agent_id, ags, trust) ==
    \E i \in 1..Len(ags) :
       \/ ~find_partner_trust_asserts(agent_id, ags[i], trust)
       \/ ags[i].quantity < 0

\* partition_agreements raises when an assertion of find_partner_trust fails
partition_raises(agent_id, ags, trust) ==
    \E i \in 1..Len(ags) : ~find_partner_trust_asserts(agent_id, ags[i], trust)

\* Mutant: the two sides are exchanged.
partition_agreements_swapped(agent_id, ags, trust) ==
    [buy |-> partition_side(agent_id, ags, trust, 1, FALSE),
     sell |-> partition_side(agent_id, ags, trust, 1, TRUE)]

partition_agreements(agent_id, ags, trust) ==
    [buy |-> partition_side(agent_id, ags, trust, 1, TRUE),
     sell |-> partition_side(agent_id, ags, trust, 1, FALSE)]

\* agreement + (i,) for i, agreement in enumerate(...)
with_sub_index(tuples) ==
    [i \in 1..Len(tuples) |->
        [master_index |-> tuples[i].master_index,
         quantity |-> tuples[i].quantity,
         time |-> tuples[i].time,
         price |-> tuples[i].price,
         partner_trust |-> tuples[i].partner_trust,
         sub_index |-> i]]

(***************************************************************************)
(* sorted(list, key=..., reverse=...): Python's sort is stable, also with  *)
(* reverse=True, so elements of equal key keep their order.  key is a      *)
(* function on the elements of the list.                                   *)
(***************************************************************************)
\* Mutant: an unstable sort, an element goes before the elements of equal key.
goes_before_or_ties(kx, ky, reverse) == IF reverse THEN kx >= ky ELSE kx <= ky

goes_before(kx, ky, reverse) == IF reverse THEN kx > ky ELSE kx < ky

RECURSIVE insert_sorted(_, _, _, _)
insert_sorted(list, x, key, reverse) ==
    IF list = <<>> THEN <<x>>
    ELSE IF goes_before(key[x], key[Head(list)], reverse)
         THEN <<x>> \o list
         ELSE <<Head(list)>> \o insert_sorted(Tail(list), x, key, reverse)

RECURSIVE sorted_prefix(_, _, _, _)
sorted_prefix(list, key, reverse, n) ==
    IF n = 0 THEN <<>>
    ELSE insert_sorted(sorted_prefix(list, key, reverse, n - 1), list[n], key, reverse)

sorted(list, key, reverse) == sorted_prefix(list, key, reverse, Len(list))

Elems(list) == { list[i] : i \in 1..Len(list) }

time_key(list) == [x \in Elems(list) |-> x.time]

\* Mutant: the partner's trust is left out of the value of an agreement.
value_of_without_trust(x) == x.quantity * x.price

\* x[QUANTITY] * x[PRICE] * x[PARTNER_TRUST]
value_of(x) == x.quantity * x.price * x.partner_trust

\* Mutant: the key is negated, which turns both orders of greedy_signer around.
value_key_negated(list) == [x \in Elems(list) |-> 0 - value_of(x)]

value_key(list) == [x \in Elems(list) |-> value_of(x)]

(***************************************************************************)
(* A linear expression is a sequence of terms variable * coefficient.      *)
(* pulp drops a term whose coefficient is zero.                            *)
(***************************************************************************)
Term(v, c) == [var |-> v, coef |-> c]

lp_term(v, c) == IF c # 0 THEN <<Term(v, c)>> ELSE <<>>

RECURSIVE TermSum(_, _)
TermSum(terms, val) ==
    IF terms = <<>> THEN 0
    ELSE Head(terms).coef * val[Head(terms).var] + TermSum(Tail(terms), val)

TermVars(terms) == { terms[i].var : i \in 1..Len(terms) }

(***************************************************************************)
(* constraints_generation_helper: pops the leading buys that are delivered *)
(* strictly before current_sell_time and returns their terms; rest is the  *)
(* list the caller's buy_agreements is left with.                          *)
(***************************************************************************)
\* Mutant: a buy delivered at the sell time itself is counted as available.
helper_takes_same_time(b, current_sell_time) == b.time <= current_sell_time

helper_takes(b, current_sell_time) == b.time < current_sell_time

RECURSIVE constraints_generation_helper(_, _)
constraints_generation_helper(buy_agreements, current_sell_time) ==
    IF Len(buy_agreements) > 0 /\ helper_takes(Head(buy_agreements), current_sell_time)
    THEN LET r == constraints_generation_helper(Tail(buy_agreements), current_sell_time)
         IN  [sum |-> lp_term(Head(buy_agreements).sub_index, Head(buy_agreements).quantity) \o r.sum,
              rest |-> r.rest]
    ELSE [sum |-> <<>>, rest |-> buy_agreements]

(***************************************************************************)
(* The sweep of sign over the time-sorted sells: result is the list of     *)
(* triples (left, middle, right), one constraint                           *)
(* sum(left) <= sum(middle) - sum(right) each.                             *)
(***************************************************************************)
\* Mutant: the sells of the earlier time steps are left out of a constraint.
Triple_without_right(l, m, r) == [left |-> l, middle |-> m, right |-> <<>>]

Triple(l, m, r) == [left |-> l, middle |-> m, right |-> r]

RECURSIVE sweep(_, _, _, _, _, _, _)
sweep(sell_agreements, buy_agreements, current_sell_time, current_sell_time_sum, partial_sell_sum, partial_buy_sum, result) ==
    IF Len(sell_agreements) = 0
    THEN LET h == constraints_generation_helper(buy_agreements, current_sell_time)
         IN  result \o <<Triple(current_sell_time_sum, partial_buy_sum \o h.sum, partial_sell_sum)>>
    ELSE LET s == Head(sell_agreements) IN
         IF current_sell_time = s.time
         THEN sweep(Tail(sell_agreements), buy_agreements, current_sell_time,
                    current_sell_time_sum \o lp_term(s.sub_index, s.quantity),
                    partial_sell_sum, partial_buy_sum, result)
         ELSE LET h == constraints_generation_helper(buy_agreements, current_sell_time)
              IN  sweep(Tail(sell_agreements), h.rest, s.time,
                        lp_term(s.sub_index, s.quantity),
                        partial_sell_sum \o current_sell_time_sum,
                        partial_buy_sum \o h.sum,
                        result \o <<Triple(current_sell_time_sum, partial_buy_sum \o h.sum, partial_sell_sum)>>)

\* Mutant: the constraint of the last sell time is not emitted after the loop.
sign_constraints_without_last(buy_agreements, sell_agreements) ==
    LET all == sweep(sell_agreements, buy_agreements, sell_agreements[1].time,
                     <<>>, <<>>, <<>>, <<>>)
    IN  SubSeq(all, 1, Len(all) - 1)

sign_constraints(buy_agreements, sell_agreements) ==
    sweep(sell_agreements, buy_agreements, sell_agreements[1].time,
          <<>>, <<>>, <<>>, <<>>)

(***************************************************************************)
(* The ILP of sign.  buy_sign_vars and sell_sign_vars are integer          *)
(* variables with bounds 0 and 1, one per sub_index.  The objective, to    *)
(* maximise, has the coefficient q*p*trust on a sell and -q*p*trust on a   *)
(* buy.  A variable belongs to the problem handed to the solver only if it *)
(* occurs in the objective or in a constraint with a non-zero coefficient; *)
(* the varValue of any other variable stays None after the solve.          *)
(***************************************************************************)
RECURSIVE objective_terms(_, _, _)
objective_terms(tuples, sign_of, i) ==
    IF i > Len(tuples) THEN <<>>
    ELSE lp_term(tuples[i].sub_index, sign_of * value_of(tuples[i]))
         \o objective_terms(tuples, sign_of, i + 1)

build_ilp(buy_agreements, sell_agreements) ==
    [n_buy |-> Len(buy_agreements),
     n_sell |-> Len(sell_agreements),
     objective_sell |-> objective_terms(sell_agreements, 1, 1),
     objective_buy |-> objective_terms(buy_agreements, -1, 1),
     constraints |-> sign_constraints(buy_agreements, sell_agreements)]

buy_vars_of(model) ==
    TermVars(model.objective_buy)
    \cup UNION { TermVars(model.constraints[c].middle) : c \in 1..Len(model.constraints) }

sell_vars_of(model) ==
    TermVars(model.objective_sell)
    \cup UNION { TermVars(model.constraints[c].left) \cup TermVars(model.constraints[c].right) :
                 c \in 1..Len(model.constraints) }

\* Assignments of 0 or 1 to the variables of the problem (0 stands in for
\* the variables that are not part of it; they occur in no sum).
assignments(model) ==
    { a \in [bs : [1..model.n_buy -> {0, 1}], ss : [1..model.n_sell -> {0, 1}]] :
        /\ \A i \in 1..model.n_buy : i \notin buy_vars_of(model) => a.bs[i] = 0
        /\ \A j \in 1..model.n_sell : j \notin sell_vars_of(model) => a.ss[j] = 0 }

\* sum(left) <= sum(middle) - sum(right)
constraint_holds(c, a) ==
    TermSum(c.left, a.ss) <= TermSum(c.middle, a.bs) - TermSum(c.right, a.ss)

feasible(model, a) ==
    \A c \in 1..Len(model.constraints) : constraint_holds(model.constraints[c], a)

objective_value(model, a) ==
    TermSum(model.objective_sell, a.ss) + TermSum(model.objective_buy, a.bs)

\* pulp.value(model.objective): the value of the objective at the solution.
\* An objective without any term is solved with pulp's placeholder variable
\* in it; whether that variable has a value after the solve, and with it
\* whether the value of the objective is 0 or None, is left open.
reported_profit(model, a) ==
    IF model.objective_sell = <<>> /\ model.objective_buy = <<>>
    THEN {None, Some(0)}
    ELSE {Some(objective_value(model, a))}

\* Mutant: the solver returns any feasible solution.
optimal_solutions_any_feasible(model) ==
    { a \in assignments(model) : feasible(model, a) }

\* model.solve: any optimal solution of the problem.
optimal_solutions(model) ==
    { a \in assignments(model) :
        /\ feasible(model, a)
        /\ \A o \in assignments(model) :
              feasible(model, o) => objective_value(model, o) <= objective_value(model, a) }

varValues(model, a) ==
    [bs |-> [i \in 1..model.n_buy |-> IF i \in buy_vars_of(model) THEN Some(a.bs[i]) ELSE None],
     ss |-> [j \in 1..model.n_sell |-> IF j \in sell_vars_of(model) THEN Some(a.ss[j]) ELSE None]]

\* varValue is not None and int(varValue) == 1
is_signed(varValue) == varValue # None /\ varValue[1] = 1

\* The variable a tuple of the time-sorted copy is read back from.
readback_var(tuple) == tuple.sub_index

\* Mutant: the variable is looked up by the position in the time-sorted copy
\* instead of by SUB_INDEX.
read_back_by_position(agent_id, n, buy_copy, sell_copy, values) ==
    [i \in 1..n |->
        IF \/ \E k \in 1..Len(buy_copy) :
                 buy_copy[k].master_index = i /\ is_signed(values.bs[k])
           \/ \E k \in 1..Len(sell_copy) :
                 sell_copy[k].master_index = i /\ is_signed(values.ss[k])
        THEN agent_id ELSE NoSignature]

\* lines 175-182: every position starts as None and the tuples of the two
\* time-sorted copies whose variable is 1 write agent_id at master_index.
read_back(agent_id, n, buy_copy, sell_copy, values) ==
    [i \in 1..n |->
        IF \/ \E k \in 1..Len(buy_copy) :
                 buy_copy[k].master_index = i /\ is_signed(values.bs[readback_var(buy_copy[k])])
           \/ \E k \in 1..Len(sell_copy) :
                 sell_copy[k].master_index = i /\ is_signed(values.ss[readback_var(sell_copy[k])])
        THEN agent_id ELSE NoSignature]

(***************************************************************************)
(* sign.  The four ways through it are the four actions below; ilp_built   *)
(* and solve_calls record whether pulp.LpProblem was created (line 129)    *)
(* and how often model.solve ran (line 171).                               *)
(***************************************************************************)
sign_result(sigs, model, t_gen, t_solve, profit, built, calls) ==
    [status |-> "returned",
     list_of_signatures |-> sigs,
     agent_id |-> AGENT_ID,
     model |-> model,
     time_to_generate_ilp |-> t_gen,
     time_to_solve_ilp |-> t_solve,
     profit |-> profit,
     ilp_built |-> built,
     solve_calls |-> calls]

raised_result == [status |-> "AssertionError", ilp_built |-> FALSE, solve_calls |-> 0]

\* Mutant: an empty list of agreements raises.
SignEmptyRaises ==
    /\ sign_out = NotRun
    /\ Len(agreements) = 0
    /\ sign_out' = raised_result
    /\ UNCHANGED <<agreements, trust_probabilities, greedy_out, sign_check, greedy_check, plan_vars>>

\* if len(agreements) == 0: return ...
SignEmpty ==
    /\ sign_out = NotRun
    /\ Len(agreements) = 0
    /\ sign_out' = sign_result(<<>>, None, None, None, None, FALSE, 0)
    /\ UNCHANGED <<agreements, trust_probabilities, greedy_out, sign_check, greedy_check, plan_vars>>

\* partition_agreements raises out of sign
SignInvalid ==
    /\ sign_out = NotRun
    /\ Len(agreements) # 0
    /\ partition_raises(AGENT_ID, agreements, trust_probabilities)
    /\ sign_out' = raised_result
    /\ UNCHANGED <<agreements, trust_probabilities, greedy_out, sign_check, greedy_check, plan_vars>>

\* Mutant: without the early return, sell_agreements[0] of line 146 raises.
SignNoSellFallsThrough ==
    /\ sign_out = NotRun
    /\ Len(agreements) # 0
    /\ ~partition_raises(AGENT_ID, agreements, trust_probabilities)
    /\ Len(partition_agreements(AGENT_ID, agreements, trust_probabilities).sell) = 0
    /\ sign_out' = [status |-> "IndexError", ilp_built |-> TRUE, solve_calls |-> 0]
    /\ UNCHANGED <<agreements, trust_probabilities, greedy_out, sign_check, greedy_check, plan_vars>>

\* if len(agreements_to_sell_outputs) == 0: return ...
SignNoSell ==
    /\ sign_out = NotRun
    /\ Len(agreements) # 0
    /\ ~partition_raises(AGENT_ID, agreements, trust_probabilities)
    /\ Len(partition_agreements(AGENT_ID, agreements, trust_probabilities).sell) = 0
    /\ sign_out' = sign_result([i \in 1..Len(agreements) |-> NoSignature],
                               None, None, None, None, FALSE, 0)
    /\ UNCHANGED <<agreements, trust_probabilities, greedy_out, sign_check, greedy_check, plan_vars>>

\* lines 110-192: sort, build the ILP, solve it, read the solution back
SignSolve ==
    /\ sign_out = NotRun
    /\ Len(agreements) # 0
    /\ ~partition_raises(AGENT_ID, agreements, trust_probabilities)
    /\ LET parts == partition_agreements(AGENT_ID, agreements, trust_probabilities)
           buy_sub == with_sub_index(parts.buy)
           sell_sub == with_sub_index(parts.sell)
           buy_agreements == sorted(buy_sub, time_key(buy_sub), FALSE)
           sell_agreements == sorted(sell_sub, time_key(sell_sub), FALSE)
           model == build_ilp(buy_agreements, sell_agreements)
       IN  /\ Len(parts.sell) # 0
           /\ \E a \in optimal_solutions(model) :
              \E profit \in reported_profit(model, a) :
                 sign_out' = sign_result(
                     read_back(AGENT_ID, Len(agreements), buy_agreements, sell_agreements,
                               varValues(model, a)),
                     Some([ilp |-> model, values |-> varValues(model, a)]),
                     Some("measured"), Some("measured"),
                     profit, TRUE, 1)
    /\ UNCHANGED <<agreements, trust_probabilities, greedy_out, sign_check, greedy_check, plan_vars>>

(***************************************************************************)
(* greedy_signer.                                                          *)
(***************************************************************************)
\* Mutant: the greedy signer covers a sell with a buy of the same time step.
greedy_usable_same_time(b, s) == b.time <= s.time

\* if b[TIME] < s[TIME]
greedy_usable(b, s) == b.time < s.time

\* The inner loop for one sell s: walks the buys from position i and stops
\* at the first position where the usable buys seen so far cover s.
RECURSIVE greedy_cover(_, _, _, _, _, _)
greedy_cover(buy_agreements, s, i, qtty_s_satisfied, set_of_buy_for_s, cost) ==
    IF i > Len(buy_agreements)
    THEN [found |-> FALSE, used |-> {}, cost |-> 0]
    ELSE IF greedy_usable(buy_agreements[i], s)
         THEN IF qtty_s_satisfied + buy_agreements[i].quantity >= s.quantity
              THEN [found |-> TRUE,
                    used |-> set_of_buy_for_s \cup {i},
                    cost |-> cost + value_of(buy_agreements[i])]
              ELSE greedy_cover(buy_agreements, s, i + 1,
                                qtty_s_satisfied + buy_agreements[i].quantity,
                                set_of_buy_for_s \cup {i},
                                cost + value_of(buy_agreements[i]))
         ELSE greedy_cover(buy_agreements, s, i + 1, qtty_s_satisfied, set_of_buy_for_s, cost)

\* Mutant: the buys used for a sell stay in the pool.
without_positions_keeps_all(list, used, i) == list

\* [b for i, b in enumerate(buy_agreements) if i not in set_of_buy_for_s]
RECURSIVE without_positions(_, _, _)
without_positions(list, used, i) ==
    IF i > Len(list) THEN <<>>
    ELSE (IF i \in used THEN <<>> ELSE <<list[i]>>) \o without_positions(list, used, i + 1)

\* The outer loop over the sells, from position k.
RECURSIVE greedy_loop(_, _, _, _, _, _)
greedy_loop(sell_agreements, k, buy_agreements, profit, set_of_signed_buy, set_of_signed_sell) ==
    IF k > Len(sell_agreements)
    THEN [profit |-> profit, set_of_signed_buy |-> set_of_signed_buy,
          set_of_signed_sell |-> set_of_signed_sell]
    ELSE LET s == sell_agreements[k]
             r == greedy_cover(buy_agreements, s, 1, 0, {}, 0)
         IN  IF r.found
             THEN greedy_loop(sell_agreements, k + 1,
                              without_positions(buy_agreements, r.used, 1),
                              profit + (value_of(s) - r.cost),
                              set_of_signed_buy \cup { buy_agreements[i].master_index : i \in r.used },
                              set_of_signed_sell \cup {s.master_index})
             ELSE greedy_loop(sell_agreements, k + 1, buy_agreements, profit,
                              set_of_signed_buy, set_of_signed_sell)

greedy_signer(agent_id, ags, trust) ==
    LET parts == partition_agreements(agent_id, ags, trust)
        buy_agreements == sorted(parts.buy, value_key(parts.buy), FALSE)
        sell_agreements == sorted(parts.sell, value_key(parts.sell), TRUE)
        r == greedy_loop(sell_agreements, 1, buy_agreements, 0, {}, {})
    IN  [status |-> "returned",
         agent_id |-> agent_id,
         list_of_signatures |->
             [i \in 1..Len(ags) |->
                 IF i \in r.set_of_signed_buy \/ i \in r.set_of_signed_sell
                 THEN agent_id ELSE NoSignature],
         profit |-> r.profit]

\* The calls are made in the order of test_many_random_agreements: sign,
\* is_sign_plan_consistent on its output, greedy_signer on the same input,
\* is_sign_plan_consistent on its output.  No call reads what an earlier
\* call left behind.
sign_finished ==
    /\ sign_out # NotRun
    /\ sign_out.status = "returned" => sign_check # "not_run"

\* partition_agreements raises out of greedy_signer
GreedyInvalid ==
    /\ sign_finished
    /\ greedy_out = NotRun
    /\ partition_raises(AGENT_ID, agreements, trust_probabilities)
    /\ greedy_out' = raised_result
    /\ UNCHANGED <<agreements, trust_probabilities, sign_out, sign_check, greedy_check, plan_vars>>

GreedySigner ==
    /\ sign_finished
    /\ greedy_out = NotRun
    /\ ~partition_raises(AGENT_ID, agreements, trust_probabilities)
    /\ greedy_out' = greedy_signer(AGENT_ID, agreements, trust_probabilities)
    /\ UNCHANGED <<agreements, trust_probabilities, sign_out, sign_check, greedy_check, plan_vars>>

(***************************************************************************)
(* get_plan_as_lists and is_sign_plan_consistent.  A plan is a function    *)
(* on the time steps 0..horizon-1.  The outcome of the check is "True",    *)
(* "False", or the exception it ends with.                                 *)
(***************************************************************************)
RECURSIVE max_time(_, _)
max_time(ags, i) ==
    IF i = Len(ags) THEN ags[i].time ELSE Max(ags[i].time, max_time(ags, i + 1))

RECURSIVE signed_quantity(_, _, _, _, _)
signed_quantity(ags, sigs, is_buy, t, i) ==
    IF i > Len(ags) THEN 0
    ELSE (IF sigs[i] # NoSignature /\ ags[i].is_buy = is_buy /\ ags[i].time = t
          THEN ags[i].quantity ELSE 0)
         + signed_quantity(ags, sigs, is_buy, t, i + 1)

get_plan_as_lists(ags, sigs) ==
    IF Len(ags) = 0
    THEN [horizon |-> 0, buy_plan |-> <<>>, sell_plan |-> <<>>]
    ELSE LET horizon == max_time(ags, 1) + 1
         IN  [horizon |-> horizon,
              buy_plan |-> [t \in 0..(horizon - 1) |-> signed_quantity(ags, sigs, TRUE, t, 1)],
              sell_plan |-> [t \in 0..(horizon - 1) |-> signed_quantity(ags, sigs, FALSE, t, 1)]]

\* output_inventory_level += buy_plan[i - 1] - sell_plan[i]
inventory_step(level, buy_plan, sell_plan, i) == level + buy_plan[i - 1] - sell_plan[i]

\* for i in range(1, len(buy_plan)): ... return False / return True
RECURSIVE inventory_loop(_, _, _, _, _)
inventory_loop(buy_plan, sell_plan, horizon, i, output_inventory_level) ==
    IF i >= horizon THEN "True"
    ELSE IF inventory_step(output_inventory_level, buy_plan, sell_plan, i) < 0
         THEN "False"
         ELSE inventory_loop(buy_plan, sell_plan, horizon, i + 1,
                             inventory_step(output_inventory_level, buy_plan, sell_plan, i))

is_sign_plan_consistent(ags, sigs) ==
    LET plan == get_plan_as_lists(ags, sigs)
    IN  IF plan.horizon = 0 THEN "IndexError"
        ELSE IF plan.sell_plan[0] # 0 THEN "AssertionError"
        ELSE IF plan.buy_plan[plan.horizon - 1] # 0 THEN "AssertionError"
        ELSE inventory_loop(plan.buy_plan, plan.sell_plan, plan.horizon, 1, 0)

CheckSign ==
    /\ sign_out.status = "returned"
    /\ sign_check = "not_run"
    /\ sign_check' = is_sign_plan_consistent(agreements, sign_out.list_of_signatures)
    /\ UNCHANGED <<agreements, trust_probabilities, sign_out, greedy_out, greedy_check, plan_vars>>

CheckGreedy ==
    /\ greedy_out.status = "returned"
    /\ greedy_check = "not_run"
    /\ greedy_check' = is_sign_plan_consistent(agreements, greedy_out.list_of_signatures)
    /\ UNCHANGED <<agreements, trust_probabilities, sign_out, greedy_out, sign_check, plan_vars>>

Next ==
    \/ SignEmpty
    \/ SignInvalid
    \/ SignNoSell
    \/ SignSolve
    \/ GreedyInvalid
    \/ GreedySigner
    \/ CheckSign
    \/ CheckGreedy

Spec == Init /\ [][Next]_vars

(***************************************************************************)
(* Properties.  The plan of a list of signatures is restated here from     *)
(* its definition: inv(0) = 0 and inv(t) = inv(t-1) + buys_at(t-1) -       *)
(* sells_at(t), so inv(t) is the signed buys of the times 0..t-1 minus the *)
(* signed sells of the times 1..t.                                         *)
(***************************************************************************)
RECURSIVE QuantitySum(_, _)
QuantitySum(ags, S) ==
    IF S = {} THEN 0
    ELSE LET i == CHOOSE x \in S : TRUE
         IN  ags[i].quantity + QuantitySum(ags, S \ {i})

SignedAt(ags, sigs, side, lo, hi) ==
    { i \in 1..Len(ags) :
        sigs[i] = AGENT_ID /\ ags[i].is_buy = side /\ lo <= ags[i].time /\ ags[i].time <= hi }

Horizon(ags) == 1 + CHOOSE m \in { ags[i].time : i \in 1..Len(ags) } :
                        \A i \in 1..Len(ags) : ags[i].time <= m

Inv(ags, sigs, t) ==
    QuantitySum(ags, SignedAt(ags, sigs, TRUE, 0, t - 1))
    - QuantitySum(ags, SignedAt(ags, sigs, FALSE, 1, t))

PlanConsistent(ags, sigs) ==
    /\ SignedAt(ags, sigs, FALSE, 0, 0) = {}
    /\ SignedAt(ags, sigs, TRUE, Horizon(ags) - 1, Horizon(ags) - 1) = {}
    /\ \A t \in 1..(Horizon(ags) - 1) : Inv(ags, sigs, t) >= 0

ValidInput == ~partition_raises(AGENT_ID, agreements, trust_probabilities)

Sells == { i \in 1..Len(agreements) : ~agreements[i].is_buy }

Buys == { i \in 1..Len(agreements) : agreements[i].is_buy }

SignSolved == sign_out.status = "returned" /\ sign_out.model # None

AllNone(sigs) == \A i \in 1..Len(sigs) : sigs[i] = NoSignature

NullDiagnostics(out) ==
    /\ out.model = None
    /\ out.time_to_generate_ilp = None
    /\ out.time_to_solve_ilp = None
    /\ out.profit = None

\* C1: whenever sign has solved its ILP for a valid non-empty list, the
\* signed plan has no sell at time 0, no buy at the last time step and a
\* non-negative inventory at every t >= 1, and is_sign_plan_consistent
\* returns true on it, whichever optimal solution was returned.
C1_SignPlanConsistent ==
    SignSolved =>
        /\ PlanConsistent(agreements, sign_out.list_of_signatures)
        /\ sign_check \in {"not_run", "True"}

C1_Witness ==
    /\ SignSolved
    /\ sign_check = "True"
    /\ \E i \in Sells : sign_out.list_of_signatures[i] = AGENT_ID
    /\ \E i \in Buys : agreements[i].unit_price = 0 /\ agreements[i].time = Horizon(agreements) - 1

\* The signing of greedy_signer as an assignment of sign's variables: the
\* variable of sub_index k is the k-th agreement of its side in input order.
GreedyAssignment ==
    LET parts == partition_agreements(AGENT_ID, agreements, trust_probabilities)
        bit(i) == IF greedy_out.list_of_signatures[i] = AGENT_ID THEN 1 ELSE 0
    IN  [bs |-> [k \in 1..Len(parts.buy) |-> bit(parts.buy[k].master_index)],
         ss |-> [k \in 1..Len(parts.sell) |-> bit(parts.sell[k].master_index)]]

\* C2: for a valid list with at least one sell, the profit of greedy_signer
\* is at most the profit of sign plus 1e-5 (0.1 in the units of the model)
\* whenever sign reports a profit, and the greedy signing satisfies every
\* constraint of the signer ILP.
C2_GreedyAtMostOptimal ==
    (SignSolved /\ greedy_out.status = "returned") =>
        /\ sign_out.profit # None =>
              10 * greedy_out.profit <= 10 * sign_out.profit[1] + 1
        /\ sign_out.profit = None => greedy_out.profit <= 0
        /\ feasible(sign_out.model[1].ilp, GreedyAssignment)

C2_Witness ==
    /\ SignSolved
    /\ sign_out.profit # None
    /\ greedy_out.status = "returned"
    /\ \E i \in Sells : greedy_out.list_of_signatures[i] = AGENT_ID
    /\ greedy_out.profit < sign_out.profit[1]

\* C3: for every valid non-empty list, the plan of greedy_signer has no
\* signed sell at time 0, no signed buy at the last time step and a
\* non-negative inventory at every t >= 1, and is_sign_plan_consistent
\* returns true on it.
C3_GreedyPlanConsistent ==
    (greedy_out.status = "returned" /\ Len(agreements) > 0) =>
        /\ PlanConsistent(agreements, greedy_out.list_of_signatures)
        /\ greedy_check \in {"not_run", "True"}

C3_Witness ==
    /\ greedy_check = "True"
    /\ Cardinality({ i \in Sells : greedy_out.list_of_signatures[i] = AGENT_ID }) >= 2

\* The decision variable of the agreement at position i of the input: its
\* sub_index is the number of agreements of its side up to position i.
DecisionValue(i) ==
    LET k == Cardinality({ j \in 1..i : agreements[j].is_buy = agreements[i].is_buy })
    IN  IF agreements[i].is_buy
        THEN sign_out.model[1].values.bs[k]
        ELSE sign_out.model[1].values.ss[k]

\* C4: the list of signatures of sign has the length of the input, holds
\* only agent_id or null, and holds agent_id at position i exactly when the
\* decision variable of the agreement given at position i is 1.
C4_SignaturesFollowMasterIndex ==
    sign_out.status = "returned" =>
        /\ Len(sign_out.list_of_signatures) = Len(agreements)
        /\ \A i \in 1..Len(agreements) :
              /\ sign_out.list_of_signatures[i] \in {AGENT_ID, NoSignature}
              /\ sign_out.list_of_signatures[i] = AGENT_ID
                 <=> (sign_out.model # None /\ DecisionValue(i) = Some(1))

C4_Witness ==
    /\ SignSolved
    /\ \E i, j \in 1..Len(agreements) :
          /\ i < j
          /\ agreements[i].is_buy = agreements[j].is_buy
          /\ agreements[i].time > agreements[j].time
          /\ sign_out.list_of_signatures[i] = AGENT_ID
          /\ sign_out.list_of_signatures[j] = NoSignature

\* C5: on the four agreements of scenario S1, sign signs exactly A0 and A1,
\* reports the profit (110 - 10) * 0.75 = 75 and the plan is consistent.
C5_ScenarioS1 ==
    (agreements = ManualAgreements /\ sign_out # NotRun) =>
        /\ sign_out.status = "returned"
        /\ sign_out.list_of_signatures = <<AGENT_ID, AGENT_ID, NoSignature, NoSignature>>
        /\ sign_out.profit = Some(750000)
        /\ sign_check \in {"not_run", "True"}

C5_Witness ==
    /\ agreements = ManualAgreements
    /\ sign_out.status = "returned"
    /\ sign_check = "True"

C7_NoSell ==
    (Len(agreements) > 0 /\ ValidInput /\ Sells = {} /\ sign_out # NotRun) =>
        /\ sign_out.status = "returned"
        /\ Len(sign_out.list_of_signatures) = Len(agreements)
        /\ AllNone(sign_out.list_of_signatures)
        /\ NullDiagnostics(sign_out)

C7_Witness ==
    /\ Len(agreements) > 1
    /\ Sells = {}
    /\ sign_out.status = "returned"

\* C8: sign on a valid non-empty list of sells only signs nothing.
C8_OnlySells ==
    (Len(agreements) > 0 /\ ValidInput /\ Buys = {} /\ sign_out # NotRun) =>
        /\ sign_out.status = "returned"
        /\ Len(sign_out.list_of_signatures) = Len(agreements)
        /\ AllNone(sign_out.list_of_signatures)

C8_Witness ==
    /\ Buys = {}
    /\ sign_out.status = "returned"
    /\ \E i, j \in Sells :
          /\ agreements[i].time < agreements[j].time
          /\ agreements[i].unit_price > 0
          /\ agreements[j].unit_price > 0

\* C9 as claimed: for a non-empty list that is all-buy or all-sell, sign
\* builds and solves no ILP and returns a null model, null timings and a
\* null profit.
C9_NoSolverOnOneSidedList ==
    (Len(agreements) > 0 /\ ValidInput /\ (Sells = {} \/ Buys = {}) /\ sign_out # NotRun) =>
        /\ ~sign_out.ilp_built
        /\ sign_out.solve_calls = 0
        /\ NullDiagnostics(sign_out)

\* C9 as amended: for a non-empty all-buy list sign builds and solves no ILP
\* and returns a null model, null timings and a null profit; for a
\* non-empty all-sell list it builds the ILP, solves it once and returns the
\* model, both timings and the value of the objective, which is 0 (or
\* null, if no sell has a non-zero q*p*trust), with every signature null.
C9_SolverOnlyWithSells ==
    (Len(agreements) > 0 /\ ValidInput /\ sign_out # NotRun) =>
        /\ Sells = {} =>
              /\ ~sign_out.ilp_built
              /\ sign_out.solve_calls = 0
              /\ NullDiagnostics(sign_out)
        /\ Buys = {} =>
              /\ sign_out.ilp_built
              /\ sign_out.solve_calls = 1
              /\ sign_out.model # None
              /\ sign_out.time_to_generate_ilp # None
              /\ sign_out.time_to_solve_ilp # None
              /\ sign_out.profit \in {None, Some(0)}
              /\ (\E i \in Sells : agreements[i].unit_price * trust_probabilities[Partner(AGENT_ID, agreements[i])] # 0)
                    => sign_out.profit = Some(0)
              /\ AllNone(sign_out.list_of_signatures)

C9_Witness ==
    /\ Len(agreements) > 0
    /\ Buys = {}
    /\ sign_out.status = "returned"
    /\ sign_out.solve_calls = 1
    /\ sign_out.profit = Some(0)
    /\ \E i \in Sells : agreements[i].unit_price > 0

\* The malformed agreements of the claim, stated on the agreement itself.
Malformed(a) ==
    \/ Len(a.partners) # 2
    \/ a.partners[1] = a.partners[2]
    \/ AGENT_ID \notin {a.partners[1], a.partners[2]}
    \/ \E x \in {a.partners[1], a.partners[2]} \ {AGENT_ID} :
          \/ x \notin DOMAIN trust_probabilities
          \/ trust_probabilities[x] < 0
          \/ trust_probabilities[x] > 100

\* C10: on a non-empty list with a malformed agreement (partners not of
\* length 2, two equal partners, agent_id not a partner, partner unknown to
\* the trust table, or trust outside [0,1]) sign and greedy_signer raise,
\* with no ILP built and no list of signatures, also without any sell.
C10_MalformedAgreementRaises ==
    (Len(agreements) > 0 /\ \E i \in 1..Len(agreements) : Malformed(agreements[i])) =>
        /\ sign_out # NotRun =>
              /\ sign_out.status = "AssertionError"
              /\ ~sign_out.ilp_built
              /\ sign_out.solve_calls = 0
              /\ "list_of_signatures" \notin DOMAIN sign_out
        /\ greedy_out # NotRun =>
              /\ greedy_out.status = "AssertionError"
              /\ "list_of_signatures" \notin DOMAIN greedy_out

C10_Witness ==
    /\ Len(agreements) > 1
    /\ Sells = {}
    /\ ~Malformed(agreements[1])
    /\ Malformed(agreements[2])
    /\ trust_probabilities[Partner(AGENT_ID, agreements[1])] = 0
    /\ sign_out.status = "AssertionError"
    /\ greedy_out.status = "AssertionError"

(***************************************************************************)
(* The business plan (SCMLBusinessPlan.py).                                *)
(*                                                                         *)
(* Arithmetic.  A probability is an integer number of mass units: the      *)
(* probability 1.0 of the code is One, so a PMF of the model gives each    *)
(* quantity a mass in units of 1/One and an expectation of the model is    *)
(* One times the expectation of the code.  Quantities, times and prices    *)
(* are the integers of the code.  A dictionary is a function whose DOMAIN  *)
(* is its set of keys.                                                     *)
(***************************************************************************)
MaxKey == 3
MaxSize == 4

\* temp = 1, the whole probability
One == 4

SignerIdle ==
    /\ agreements = <<>>
    /\ trust_probabilities = DEFAULT_TRUST_PROB
    /\ sign_out = NotRun
    /\ greedy_out = NotRun
    /\ sign_check = "not_run"
    /\ greedy_check = "not_run"

\* A dictionary {quantity: mass}: any set of keys, any mass, so that the
\* masses of a dictionary can be negative or add up to more than One.
Masses == -1..One
Dicts(keys, values) == UNION {[d -> values] : d \in SUBSET keys}

RECURSIVE SumOver(_, _)
SumOver(f, keys) ==
    IF keys = {} THEN 0
    ELSE LET k == CHOOSE x \in keys : TRUE
         IN  f[k] + SumOver(f, keys \ {k})

TotalMass(dict_data) == SumOver(dict_data, DOMAIN dict_data)

WellFormedPmf(dict_data) ==
    /\ \A k \in DOMAIN dict_data : dict_data[k] >= 0
    /\ TotalMass(dict_data) <= One

\* dict_data[i - 1] if i - 1 in dict_data else 0.0
mass_or_zero(dict_data, k) == IF k \in DOMAIN dict_data THEN dict_data[k] ELSE 0

\* Mutant: the running tail starts at 0 instead of 1.
initial_temp_zero == One - One

\* temp = 1
initial_temp == One

\* Mutant: iteration i subtracts the mass of i instead of that of i - 1.
subtracted_key_same(i) == i

\* the key whose mass iteration i subtracts: i - 1
subtracted_key(i) == i - 1

\* temp after iteration i of the loop (i = 0: before the loop)
RECURSIVE temp_after(_, _)
temp_after(dict_data, i) ==
    IF i = 0 THEN initial_temp
    ELSE temp_after(dict_data, i - 1) - mass_or_zero(dict_data, subtracted_key(i))

\* ret[i] after iteration i of the loop: ret[i - 1] + temp
RECURSIVE ret_at(_, _)
ret_at(dict_data, i) ==
    IF i = 0 THEN 0
    ELSE ret_at(dict_data, i - 1) + temp_after(dict_data, i)

\* compute_min_expectation: ret = {0: 0.0}, then one key per i in
\* range(1, size); for size < 1 the loop does not run.
compute_min_expectation(dict_data, size) ==
    [i \in {0} \cup 1..(size - 1) |-> ret_at(dict_data, i)]

InitMinExpectation ==
    /\ SignerIdle
    /\ resign_out = NotRun
    /\ sign_again = NotRun
    /\ greedy_again = NotRun
    /\ rb_in = NoInput
    /\ rb_out = NotRun
    /\ me_in \in [dict_data : Dicts(0..MaxKey, Masses), size : 0..MaxSize]
    /\ me_out = NotRun
    /\ bp_in = NoInput
    /\ bp_out = NotRun
    /\ bp_status = "not_run"

ComputeMinExpectation ==
    /\ me_in # NoInput
    /\ me_out = NotRun
    /\ me_out' = [status |-> "returned",
                  ret |-> compute_min_expectation(me_in.dict_data, me_in.size)]
    /\ UNCHANGED <<signer_vars, resign_out, me_in, bp_in, bp_out, bp_status, again_vars, readback_vars>>

NextMinExpectation == ComputeMinExpectation

SpecMinExpectation == InitMinExpectation /\ [][NextMinExpectation]_vars

MinExpectationReturned == me_in # NoInput /\ me_out # NotRun

Min(a, b) == IF a <= b THEN a ELSE b

\* E[min(y, X)] in mass units, from the definition
RECURSIVE ExpectedMin(_, _, _)
ExpectedMin(dict_data, keys, y) ==
    IF keys = {} THEN 0
    ELSE LET x == CHOOSE k \in keys : TRUE
         IN  dict_data[x] * Min(y, x) + ExpectedMin(dict_data, keys \ {x}, y)

\* C18: for a well-formed PMF (masses non-negative, total at most 1) and
\* q_max >= 1, the table of compute_min_expectation has exactly the keys
\* 0..q_max-1, table[0] = 0, every entry is non-negative and the table is
\* non-decreasing in y.
C18_TableShape ==
    (MinExpectationReturned /\ WellFormedPmf(me_in.dict_data) /\ me_in.size >= 1)
    => /\ DOMAIN me_out.ret = 0..(me_in.size - 1)
       /\ me_out.ret[0] = 0
       /\ \A y \in DOMAIN me_out.ret : me_out.ret[y] >= 0
       /\ \A y \in DOMAIN me_out.ret :
             y >= 1 => me_out.ret[y - 1] <= me_out.ret[y]

C18_Witness ==
    /\ MinExpectationReturned
    /\ WellFormedPmf(me_in.dict_data)
    /\ me_in.size = 3
    /\ TotalMass(me_in.dict_data) < One
    /\ mass_or_zero(me_in.dict_data, 0) > 0
    /\ mass_or_zero(me_in.dict_data, 1) > 0
    /\ me_out.ret[2] > me_out.ret[1]

\* C19: for a PMF whose masses add up to 1 and every y in [0, q_max),
\* table[y] is E[min(y, X)], the sum over x of pmf[x] * min(y, x), a key
\* absent from the PMF counting as zero mass.
C19_TableIsExpectedMin ==
    (/\ MinExpectationReturned
     /\ WellFormedPmf(me_in.dict_data)
     /\ TotalMass(me_in.dict_data) = One
     /\ me_in.size >= 1)
    => \A y \in 0..(me_in.size - 1) :
          /\ y \in DOMAIN me_out.ret
          /\ me_out.ret[y] = ExpectedMin(me_in.dict_data, DOMAIN me_in.dict_data, y)

C19_Witness ==
    /\ MinExpectationReturned
    /\ WellFormedPmf(me_in.dict_data)
    /\ TotalMass(me_in.dict_data) = One
    /\ me_in.size = 3
    /\ mass_or_zero(me_in.dict_data, 1) > 0
    /\ mass_or_zero(me_in.dict_data, 3) > 0
    /\ 2 \notin DOMAIN me_in.dict_data
    /\ me_out.ret[2] > me_out.ret[1]

(***************************************************************************)
(* compute_business_plan.                                                  *)
(*                                                                         *)
(* The ILP has one 0/1 variable inn_vars[t, k] and one out_vars[t, k] for  *)
(* every time t and target k.  Lines 140-142 let at most one target be     *)
(* selected per side and time, so an assignment that satisfies them is     *)
(* written as the target selected at each time, NoTarget when every        *)
(* variable of that side and time is 0.  Every variable occurs in the      *)
(* constraint of lines 140-142, so the solver gives every variable a       *)
(* value.  The solver is modelled as returning any optimal solution.       *)
(***************************************************************************)
MaxHorizon == 2
MaxQ == 3

NoTarget == -1

Times(horizon) == 0..(horizon - 1)
Targets(q_max) == 0..(q_max - 1)

\* get_minima: one table per time and side
get_minima(horizon, q_max, Q_inn, Q_out) ==
    [inn |-> [t \in Times(horizon) |-> compute_min_expectation(Q_inn[t], q_max)],
     out |-> [t \in Times(horizon) |-> compute_min_expectation(Q_out[t], q_max)]]

\* _G[k] = k: the default map stores the key of the entry
stored_commitment(k, v) == k

\* lines 85-99: C = None gives an empty defaultdict(int), else _G
commitments(C) ==
    IF C = None THEN [k \in {} |-> 0]
    ELSE [k \in DOMAIN C[1] |-> stored_commitment(k, C[1][k])]

\* C[t] on a defaultdict(int)
committed(G, t) == IF t \in DOMAIN G THEN G[t] ELSE 0

\* the values of the variables of an assignment
inn_value(sol, t, k) == IF sol.inn[t] = k THEN 1 ELSE 0
out_value(sol, t, k) == IF sol.out[t] = k THEN 1 ELSE 0

\* the assignments that satisfy lines 140-142
one_target_assignments(horizon, q_max) ==
    [inn : [Times(horizon) -> {NoTarget} \cup Targets(q_max)],
     out : [Times(horizon) -> {NoTarget} \cup Targets(q_max)]]

\* sum over k of inn_vars[t, k] * weight[k]
inn_sum(sol, t, q_max, weight) ==
    SumOver([k \in Targets(q_max) |-> inn_value(sol, t, k) * weight[k]], Targets(q_max))

\* sum over k of out_vars[t, k] * weight[k]
out_sum(sol, t, q_max, weight) ==
    SumOver([k \in Targets(q_max) |-> out_value(sol, t, k) * weight[k]], Targets(q_max))

\* the weights k of the optimistic regime
identity_weight(q_max) == [k \in Targets(q_max) |-> k]

\* lines 130-136: revenue minus cost
plan_objective(sol, horizon, q_max, inn, out, p_inn, p_out) ==
    SumOver([t \in Times(horizon) |->
                out_sum(sol, t, q_max, out[t]) * p_out[t]
                - inn_sum(sol, t, q_max, inn[t]) * p_inn[t]],
            Times(horizon))

\* right_hand_size when the constraint of time t is added: the net of the
\* times before t, in units (optimistic) or in expectation
RECURSIVE right_hand_size(_, _, _, _, _)
right_hand_size(sol, t, q_max, w_inn, w_out) ==
    IF t = 0 THEN 0
    ELSE right_hand_size(sol, t - 1, q_max, w_inn, w_out)
         + inn_sum(sol, t - 1, q_max, w_inn[t - 1])
         - out_sum(sol, t - 1, q_max, w_out[t - 1])

\* the right-hand side of the inventory constraint of time t
inventory_rhs(sol, t, q_max, w_inn, w_out) == right_hand_size(sol, t, q_max, w_inn, w_out)

\* lines 145-176: enough outputs to sell at each time 1..horizon-1
inventory_constraints(sol, horizon, q_max, inn, out, optimistic) ==
    LET w_inn == IF optimistic THEN [t \in Times(horizon) |-> identity_weight(q_max)] ELSE inn
        w_out == IF optimistic THEN [t \in Times(horizon) |-> identity_weight(q_max)] ELSE out
    IN  \A t \in 1..(horizon - 1) :
           out_sum(sol, t, q_max, w_out[t]) <= inventory_rhs(sol, t, q_max, w_inn, w_out)

\* Mutant: only the committed inputs are floors.
commitment_constraints_inputs_only(sol, horizon, q_max, inn, out, G_inn, G_out) ==
    \A t \in Times(horizon) : inn_sum(sol, t, q_max, inn[t]) >= One * committed(G_inn, t)

\* lines 178-184: the commitments are floors of the expectations
commitment_constraints(sol, horizon, q_max, inn, out, G_inn, G_out) ==
    \A t \in Times(horizon) :
       /\ out_sum(sol, t, q_max, out[t]) >= One * committed(G_out, t)
       /\ inn_sum(sol, t, q_max, inn[t]) >= One * committed(G_inn, t)

\* out_vars[i, k] == 1 if k == C[i] else == 0, for every k
pinned(choice, q_max, c) == IF c \in Targets(q_max) THEN choice = c ELSE choice = NoTarget

\* lines 189-206
pinning_constraints(sol, q_max, G_inn, G_out, step) ==
    IF step = 0
    THEN q_max >= 1 => pinned(sol.out[0], q_max, committed(G_out, 0))
    ELSE \A i \in 0..(step - 1) :
            q_max >= 1 => /\ pinned(sol.out[i], q_max, committed(G_out, i))
                          /\ pinned(sol.inn[i], q_max, committed(G_inn, i))

\* every constraint the code adds after lines 140-142
plan_feasible(sol, horizon, q_max, inn, out, G_inn, G_out, optimistic, step) ==
    /\ inventory_constraints(sol, horizon, q_max, inn, out, optimistic)
    /\ commitment_constraints(sol, horizon, q_max, inn, out, G_inn, G_out)
    /\ pinning_constraints(sol, q_max, G_inn, G_out, step)

\* A varValue is a number of ten-thousandths: 1.0 is Unit, 0.9999 is
\* Unit - 1.
Unit == 10000

\* int(x) of Python for x = n / Unit: the fraction is cut off, towards zero
int(n) == IF n >= 0 THEN n \div Unit ELSE 0 - ((0 - n) \div Unit)

\* int(k * var.varValue)
plan_entry(k, varValue) == int(k * varValue)

\* sum([int(k * vars[t, k].varValue) for k in range(0, q_max)])
read_values(values, q_max) ==
    SumOver([k \in Targets(q_max) |-> plan_entry(k, values[k])], Targets(q_max))

\* lines 217-224 on a solution in which every variable is exactly 0 or 1
read_plan(choice, horizon, q_max) ==
    [t \in Times(horizon) |->
        read_values([k \in Targets(q_max) |-> IF choice[t] = k THEN Unit ELSE 0], q_max)]

\* The values the variables hold after a solve that found the ILP
\* infeasible satisfy no constraint: each is 0 or 1, so a plan entry is any
\* sum of distinct targets.
unconstrained_plans(horizon, q_max) ==
    [Times(horizon) -> 0..SumOver(identity_weight(q_max), Targets(q_max))]

\* lines 227-242: the dictionary compute_business_plan returns
plan_result(in, tables, buy_plan, sell_plan) ==
    [status |-> "returned",
     horizon |-> in.horizon,
     q_max |-> in.q_max,
     out |-> tables.out,
     inn |-> tables.inn,
     p_out |-> in.p_out,
     p_inn |-> in.p_inn,
     optimistic |-> in.optimistic,
     time_to_generate_variables |-> "measured",
     time_to_generate_objective |-> "measured",
     time_to_generate_constraints |-> "measured",
     time_to_solve |-> "measured",
     time_to_read_plan |-> "measured",
     buy_plan |-> buy_plan,
     sell_plan |-> sell_plan]

\* the assignments that satisfy every constraint of the ILP
feasible_plans(in, tables, G_inn, G_out) ==
    {sol \in one_target_assignments(in.horizon, in.q_max) :
        plan_feasible(sol, in.horizon, in.q_max, tables.inn, tables.out,
                      G_inn, G_out, in.optimistic, in.step)}

\* the objective of an assignment
plan_value(in, tables, sol) ==
    plan_objective(sol, in.horizon, in.q_max, tables.inn, tables.out, in.p_inn, in.p_out)

\* the optimum of the ILP (pulp.LpMaximize)
best_value(in, tables, feasible_set) ==
    LET values == {plan_value(in, tables, sol) : sol \in feasible_set}
    IN  CHOOSE v \in values : \A w \in values : w <= v

\* compute_business_plan.  bp_status is the solved pulp model, a local of
\* the function that the returned dictionary does not hold.
ComputeBusinessPlan ==
    /\ bp_in # NoInput
    /\ bp_out = NotRun
    /\ LET horizon == bp_in.horizon
           q_max == bp_in.q_max
           G_inn == commitments(bp_in.C_inn)
           G_out == commitments(bp_in.C_out)
       IN  \E tables \in {get_minima(horizon, q_max, bp_in.Q_inn, bp_in.Q_out)} :
           \E feasible_set \in {feasible_plans(bp_in, tables, G_inn, G_out)} :
              IF feasible_set = {}
              THEN \E buy_plan \in unconstrained_plans(horizon, q_max) :
                   \E sell_plan \in unconstrained_plans(horizon, q_max) :
                      /\ bp_out' = plan_result(bp_in, tables, buy_plan, sell_plan)
                      /\ bp_status' = [status |-> "Infeasible", objective |-> None]
              ELSE \E best \in {best_value(bp_in, tables, feasible_set)} :
                   \E sol \in feasible_set :
                      /\ plan_value(bp_in, tables, sol) = best
                      /\ bp_out' = plan_result(bp_in, tables,
                                               read_plan(sol.inn, horizon, q_max),
                                               read_plan(sol.out, horizon, q_max))
                      /\ bp_status' = [status |-> "Optimal", objective |-> Some(best)]
    /\ UNCHANGED <<signer_vars, resign_out, me_in, me_out, bp_in, again_vars, readback_vars>>

\* The PMFs of the explored plans: all the mass on 0, half on 0 and half
\* on 1, all on 1, half on 1 and half on 2.
PlanPmfs ==
    {(0 :> One),
     (0 :> One \div 2) @@ (1 :> One \div 2),
     (1 :> One),
     (1 :> One \div 2) @@ (2 :> One \div 2)}

InnPrices == {1, 3}
OutPrices == {0, 2}

\* the commitments of the explored plans: none, or one committed quantity
CommitmentChoices == {None, Some(0 :> 1), Some(1 :> 1)}

PlanInput(h, q, Qi, Qo, pi, po, Ci, Co, opt, st) ==
    [horizon |-> h, q_max |-> q,
     Q_inn |-> [t \in Times(h) |-> Qi], Q_out |-> [t \in Times(h) |-> Qo],
     p_inn |-> pi, p_out |-> po, C_inn |-> Ci, C_out |-> Co,
     optimistic |-> opt, step |-> st]

\* plans without commitments, as the tests of the repository call them
PlainPlanInputsOf(h) ==
    {PlanInput(h, q, Qi, Qo, pi, po, None, None, opt, 0) :
        q \in 1..MaxQ, Qi \in PlanPmfs, Qo \in PlanPmfs,
        pi \in [Times(h) -> InnPrices], po \in [Times(h) -> OutPrices],
        opt \in BOOLEAN}

PlainPlanInputs == UNION {PlainPlanInputsOf(h) : h \in 1..MaxHorizon}

\* plans with commitments and a first step
CommittedPlanInputs ==
    {PlanInput(h, q, Qi, Qo, [t \in Times(h) |-> 1], [t \in Times(h) |-> 2], Ci, Co, opt, st) :
        h \in 1..MaxHorizon, q \in 1..MaxQ, Qi \in PlanPmfs, Qo \in PlanPmfs,
        Ci \in CommitmentChoices, Co \in CommitmentChoices,
        opt \in BOOLEAN, st \in 0..MaxHorizon}

\* range(step) stays within the horizon
WellTypedPlanInput(in) == in.step <= in.horizon

InitBusinessPlan ==
    /\ SignerIdle
    /\ resign_out = NotRun
    /\ sign_again = NotRun
    /\ greedy_again = NotRun
    /\ rb_in = NoInput
    /\ rb_out = NotRun
    /\ me_in = NoInput
    /\ me_out = NotRun
    /\ bp_in \in {in \in PlainPlanInputs \cup CommittedPlanInputs : WellTypedPlanInput(in)}
    /\ bp_out = NotRun
    /\ bp_status = "not_run"

NextBusinessPlan == ComputeBusinessPlan

SpecBusinessPlan == InitBusinessPlan /\ [][NextBusinessPlan]_vars

(***************************************************************************)
(* Properties of the business plan.                                        *)
(***************************************************************************)
PlanReturned == bp_in # NoInput /\ bp_out # NotRun

NoCommitments == bp_in.C_inn = None /\ bp_in.C_out = None

\* the committed quantity the caller supplied for time t, 0 when absent
Supplied(C, t) ==
    IF C = None THEN 0
    ELSE IF t \in DOMAIN C[1] THEN C[1][t] ELSE 0

Total(plan) == SumOver(plan, DOMAIN plan)

PositivePrices ==
    \A t \in Times(bp_in.horizon) : bp_in.p_inn[t] > 0 /\ bp_in.p_out[t] > 0

C13_TotalBuyEqualsTotalSell ==
    (/\ PlanReturned
     /\ bp_in.optimistic
     /\ NoCommitments
     /\ bp_in.step = 0
     /\ \A t \in Times(bp_in.horizon) :
           WellFormedPmf(bp_in.Q_inn[t]) /\ WellFormedPmf(bp_in.Q_out[t])
     /\ PositivePrices)
    => Total(bp_out.buy_plan) = Total(bp_out.sell_plan)

\* C14: every returned plan meets the commitments the caller supplied, in
\* expectation: E_out[t][sell_plan[t]] >= C_out[t] and
\* E_inn[t][buy_plan[t]] >= C_inn[t], an absent time counting as 0.
C14_SuppliedCommitmentsAreFloors ==
    PlanReturned
    => \A t \in Times(bp_in.horizon) :
          /\ bp_out.sell_plan[t] \in DOMAIN bp_out.out[t]
          /\ bp_out.out[t][bp_out.sell_plan[t]] >= One * Supplied(bp_in.C_out, t)
          /\ bp_out.buy_plan[t] \in DOMAIN bp_out.inn[t]
          /\ bp_out.inn[t][bp_out.buy_plan[t]] >= One * Supplied(bp_in.C_inn, t)

\* C15: in every returned plan the sell target of each time i before
\* max(step, 1) is the commitment the caller supplied, 0 when absent, and
\* when step > 0 the buy target is too.
C15_PinnedToSuppliedCommitments ==
    PlanReturned
    => \A i \in 0..(Max(bp_in.step, 1) - 1) :
          /\ bp_out.sell_plan[i] = Supplied(bp_in.C_out, i)
          /\ bp_in.step > 0 => bp_out.buy_plan[i] = Supplied(bp_in.C_inn, i)

\* C16: when the ILP is infeasible or unbounded, compute_business_plan
\* returns a result that carries the solver status and whose buy_plan and
\* sell_plan are null.
C16_InfeasibleGivesNullPlan ==
    (PlanReturned /\ bp_status.status # "Optimal")
    => /\ bp_out.status = "returned"
       /\ "model_status" \in DOMAIN bp_out
       /\ bp_out.buy_plan = None
       /\ bp_out.sell_plan = None

\* C17: when every output price is 0, the input prices are positive and
\* nothing is committed, every optimal solution plans to buy and to sell
\* nothing, and its objective is 0.
C17_ZeroOutputPriceBuysNothing ==
    (/\ PlanReturned
     /\ NoCommitments
     /\ \A t \in Times(bp_in.horizon) : bp_in.p_out[t] = 0 /\ bp_in.p_inn[t] > 0)
    => /\ \A t \in Times(bp_in.horizon) :
             bp_out.buy_plan[t] = 0 /\ bp_out.sell_plan[t] = 0
       /\ bp_status.objective = Some(0)

(***************************************************************************)
(* A second call of sign, on the agreements that the first call signed.    *)
(***************************************************************************)
\* sign as a function of its arguments: the results it can give
sign_calls(agent_id, ags, trust) ==
    IF Len(ags) = 0
    THEN {sign_result(<<>>, None, None, None, None, FALSE, 0)}
    ELSE IF partition_raises(agent_id, ags, trust)
    THEN {raised_result}
    ELSE LET parts == partition_agreements(agent_id, ags, trust)
             buy_sub == with_sub_index(parts.buy)
             sell_sub == with_sub_index(parts.sell)
             buy_agreements == sorted(buy_sub, time_key(buy_sub), FALSE)
             sell_agreements == sorted(sell_sub, time_key(sell_sub), FALSE)
         IN  IF Len(parts.sell) = 0
             THEN {sign_result([i \in 1..Len(ags) |-> NoSignature],
                               None, None, None, None, FALSE, 0)}
             ELSE UNION {
                    UNION {
                      {sign_result(
                          read_back(agent_id, Len(ags), buy_agreements, sell_agreements,
                                    varValues(model, a)),
                          Some([ilp |-> model, values |-> varValues(model, a)]),
                          Some("measured"), Some("measured"),
                          profit, TRUE, 1) : profit \in reported_profit(model, a)}
                      : a \in optimal_solutions(model)}
                    : model \in {build_ilp(buy_agreements, sell_agreements)}}

\* Mutant: the second call is given the agreements the first left unsigned.
is_resubmitted_when_unsigned(signature, agent_id) == signature # agent_id

\* the agreements of the second call are those whose signature is agent_id
is_resubmitted(signature, agent_id) == signature = agent_id

RECURSIVE signed_sublist(_, _, _, _)
signed_sublist(ags, sigs, agent_id, i) ==
    IF i > Len(ags) THEN <<>>
    ELSE (IF is_resubmitted(sigs[i], agent_id) THEN <<ags[i]>> ELSE <<>>)
         \o signed_sublist(ags, sigs, agent_id, i + 1)

ReSign ==
    /\ sign_out # NotRun
    /\ sign_out.status = "returned"
    /\ resign_out = NotRun
    /\ resign_out' \in sign_calls(AGENT_ID,
                                  signed_sublist(agreements, sign_out.list_of_signatures,
                                                 AGENT_ID, 1),
                                  trust_probabilities)
    /\ UNCHANGED <<signer_vars, me_in, me_out, bp_in, bp_out, bp_status, again_vars, readback_vars>>

InitResign ==
    /\ \/ agreements \in SeqsUpTo(ValidAgreements, MaxLen)
       \/ agreements \in SeqsUpTo(UnitAgreements, MaxUnitLen)
       \/ agreements \in {ManualAgreements, GreedyTestAgreements}
    /\ trust_probabilities = DEFAULT_TRUST_PROB
    /\ sign_out = NotRun
    /\ greedy_out = NotRun
    /\ sign_check = "not_run"
    /\ greedy_check = "not_run"
    /\ PlanIdle

NextResign ==
    \/ SignEmpty
    \/ SignNoSell
    \/ SignSolve
    \/ ReSign

SpecResign == InitResign /\ [][NextResign]_vars

Resigned == sign_out # NotRun /\ sign_out.status = "returned" /\ resign_out # NotRun

AllSigned(sigs) == \A i \in 1..Len(sigs) : sigs[i] = AGENT_ID

\* the ILP of the first call has one optimal solution only
SingleOptimum ==
    \E model \in {sign_out.model[1].ilp} :
    \E good \in {{a \in assignments(model) : feasible(model, a)}} :
    \E values \in {{objective_value(model, a) : a \in good}} :
    \E best \in {v \in values : \A w \in values : w <= v} :
       Cardinality({a \in good : objective_value(model, a) = best}) = 1

\* C20 as stated: on the agreements that a first call of sign signed, a
\* second call signs every agreement, whichever optimal solution the solver
\* returns.
C20_ResignSignsAll ==
    (ValidInput /\ Resigned)
    => /\ resign_out.status = "returned"
       /\ AllSigned(resign_out.list_of_signatures)

\* C20 (amended): when the ILP of the first call has a single optimal
\* solution, the second call signs every agreement of the signed sub-list;
\* in every case the second call returns, signs agreements of the sub-list
\* only, and a profit it reports is the profit the first call reported.
C20_ResignSignsAllWithoutTies ==
    (ValidInput /\ Resigned)
    => /\ resign_out.status = "returned"
       /\ Len(resign_out.list_of_signatures)
             = Cardinality({i \in 1..Len(agreements) : sign_out.list_of_signatures[i] = AGENT_ID})
       /\ (SignSolved /\ SingleOptimum) => AllSigned(resign_out.list_of_signatures)
       /\ (sign_out.profit # None /\ resign_out.profit # None)
             => resign_out.profit = sign_out.profit

C20_Witness ==
    /\ ValidInput
    /\ Resigned
    /\ SignSolved
    /\ SingleOptimum
    /\ Len(agreements) = 3
    /\ Len(resign_out.list_of_signatures) = 2
    /\ AllSigned(resign_out.list_of_signatures)
    /\ resign_out.profit = sign_out.profit
    /\ sign_out.profit # None

(***************************************************************************)
(* Inputs outside of the data model: a negative quantity, q_max < 1.       *)
(***************************************************************************)
MaxInvalidLen == 2

\* agreements of quantity -1 or 1, with a partner list that
\* find_partner_trust accepts or one that it rejects
SignedQuantityAgreements ==
    { Contract(q, t, 100, b, ps) :
        q \in {-1, 1}, t \in {0, 1}, b \in BOOLEAN,
        ps \in {<<AGENT_ID, OTHER_AGENT_ID>>, <<AGENT_ID>>} }

\* plans and tables asked for with q_max = 0 or q_max = -1
EmptyRangePlanInputs ==
    {PlanInput(h, q, Qi, Qo, [t \in Times(h) |-> 1], [t \in Times(h) |-> 2], None, None, opt, 0) :
        h \in 1..MaxHorizon, q \in {-1, 0}, Qi \in PlanPmfs, Qo \in PlanPmfs, opt \in BOOLEAN}

InitInvalid ==
    \/ /\ agreements \in SeqsUpTo(SignedQuantityAgreements, MaxInvalidLen) \ {<<>>}
       /\ trust_probabilities = DEFAULT_TRUST_PROB
       /\ sign_out = NotRun
       /\ greedy_out = NotRun
       /\ sign_check = "not_run"
       /\ greedy_check = "not_run"
       /\ PlanIdle
    \/ /\ SignerIdle
       /\ resign_out = NotRun
       /\ sign_again = NotRun
       /\ greedy_again = NotRun
       /\ rb_in = NoInput
       /\ rb_out = NotRun
       /\ me_in \in [dict_data : PlanPmfs, size : {-1, 0, 1}]
       /\ me_out = NotRun
       /\ bp_in = NoInput
       /\ bp_out = NotRun
       /\ bp_status = "not_run"
    \/ /\ SignerIdle
       /\ resign_out = NotRun
       /\ sign_again = NotRun
       /\ greedy_again = NotRun
       /\ rb_in = NoInput
       /\ rb_out = NotRun
       /\ me_in = NoInput
       /\ me_out = NotRun
       /\ bp_in \in EmptyRangePlanInputs
       /\ bp_out = NotRun
       /\ bp_status = "not_run"

NextInvalid ==
    \/ SignInvalid
    \/ SignNoSell
    \/ SignSolve
    \/ ComputeMinExpectation
    \/ ComputeBusinessPlan

SpecInvalid == InitInvalid /\ [][NextInvalid]_vars

AnyMalformed == \E i \in 1..Len(agreements) : Malformed(agreements[i])

NegativeQuantity == \E i \in 1..Len(agreements) : agreements[i].quantity < 0

\* C11 as stated: a negative quantity makes sign raise before any solver
\* work, and q_max < 1 makes compute_min_expectation and
\* compute_business_plan raise instead of returning a result.
C11_InvalidInputRaises ==
    /\ (sign_out # NotRun /\ NegativeQuantity)
          => sign_out.status = "AssertionError" /\ sign_out.solve_calls = 0
    /\ (MinExpectationReturned /\ me_in.size < 1) => me_out.status # "returned"
    /\ (PlanReturned /\ bp_in.q_max < 1) => bp_out.status # "returned"

\* C11 (amended): neither input is checked.  sign raises on a list with a
\* negative quantity only when a partner list or a trust value is
\* malformed; otherwise it returns a verdict list, after a solver call when
\* the list has a sell.  With q_max < 1 compute_min_expectation returns the
\* table {0: 0.0} and compute_business_plan solves an ILP without
\* variables and returns a plan of zeros.
C11_NoQuantityOrSizeValidation ==
    /\ (sign_out # NotRun /\ NegativeQuantity)
          => /\ sign_out.status = "AssertionError" <=> AnyMalformed
             /\ ~AnyMalformed
                  => /\ Len(sign_out.list_of_signatures) = Len(agreements)
                     /\ sign_out.solve_calls = (IF Sells = {} THEN 0 ELSE 1)
    /\ (MinExpectationReturned /\ me_in.size < 1)
          => me_out.status = "returned" /\ me_out.ret = [y \in {0} |-> 0]
    /\ (PlanReturned /\ bp_in.q_max < 1)
          => /\ bp_out.status = "returned"
             /\ bp_status.status = "Optimal"
             /\ \A t \in Times(bp_in.horizon) :
                   bp_out.buy_plan[t] = 0 /\ bp_out.sell_plan[t] = 0

C11_Witness ==
    /\ sign_out # NotRun
    /\ ~AnyMalformed
    /\ NegativeQuantity
    /\ Sells # {}
    /\ sign_out.status = "returned"
    /\ sign_out.solve_calls = 1
    /\ \E i \in 1..Len(agreements) :
          agreements[i].quantity < 0 /\ sign_out.list_of_signatures[i] = AGENT_ID

(***************************************************************************)
(* The outcome of is_sign_plan_consistent on the outputs of the signers.   *)
(***************************************************************************)
Checked(check) == check # "not_run"

\* C21: on any signer output, the empty agreement list included,
\* is_sign_plan_consistent returns a boolean, true exactly when the plan
\* has no sell at time 0, no buy at the last time step and a non-negative
\* inventory at every t >= 1, and false otherwise.
C21_CheckerReturnsBoolean ==
    /\ Checked(sign_check) =>
          /\ sign_check \in {"True", "False"}
          /\ sign_check = "True" <=> PlanConsistent(agreements, sign_out.list_of_signatures)
    /\ Checked(greedy_check) =>
          /\ greedy_check \in {"True", "False"}
          /\ greedy_check = "True" <=> PlanConsistent(agreements, greedy_out.list_of_signatures)

(***************************************************************************)
(* Repeated calls.  After the calls of test_many_random_agreements,        *)
(* greedy_signer and then sign are called once more on the same input.     *)
(* Nothing of a call outlives it: both are static methods that read their  *)
(* arguments only, so a repeated call is the same function of the same     *)
(* arguments.                                                              *)
(***************************************************************************)
MaxRepeatLen == 3

\* Agreements of one price and of either quantity, sells of three time
\* steps and buys of the two time steps before the last, so that a list has
\* several sell times, ties in time, buys too late for a sell and sells
\* that need more than one buy.
RepeatAgreements ==
    { Contract(q, t, 100, FALSE, <<AGENT_ID, OTHER_AGENT_ID>>) : q \in Quantities, t \in UnitTimes }
    \cup { Contract(q, t, 100, TRUE, <<AGENT_ID, OTHER_AGENT_ID>>) : q \in Quantities, t \in {0, 1} }

GreedyAgain ==
    /\ greedy_out # NotRun
    /\ greedy_out.status = "returned"
    /\ greedy_again = NotRun
    /\ greedy_again' = greedy_signer(AGENT_ID, agreements, trust_probabilities)
    /\ UNCHANGED <<signer_vars, resign_out, me_in, me_out, bp_in, bp_out, bp_status, sign_again, readback_vars>>

SignAgain ==
    /\ sign_out # NotRun
    /\ sign_out.status = "returned"
    /\ greedy_again # NotRun
    /\ sign_again = NotRun
    /\ sign_again' \in sign_calls(AGENT_ID, agreements, trust_probabilities)
    /\ UNCHANGED <<signer_vars, resign_out, me_in, me_out, bp_in, bp_out, bp_status, greedy_again, readback_vars>>

InitRepeat ==
    /\ \/ agreements \in SeqsUpTo(RepeatAgreements, MaxRepeatLen)
       \/ agreements \in {ManualAgreements, GreedyTestAgreements}
    /\ trust_probabilities = DEFAULT_TRUST_PROB
    /\ sign_out = NotRun
    /\ greedy_out = NotRun
    /\ sign_check = "not_run"
    /\ greedy_check = "not_run"
    /\ PlanIdle

NextRepeat ==
    \/ SignEmpty
    \/ SignNoSell
    \/ SignSolve
    \/ CheckSign
    \/ GreedySigner
    \/ GreedyAgain
    \/ SignAgain

SpecRepeat == InitRepeat /\ [][NextRepeat]_vars

\* The agreements of the two sides in input order: the variable of
\* sub_index k stands for the k-th agreement of its side.
Parts == partition_agreements(AGENT_ID, agreements, trust_probabilities)

\* The terms of a sum follow the time order of their agreements, and
\* agreements of one time step follow in ascending sub_index.
InTimeThenSubIndexOrder(terms, tuples) ==
    \A i, j \in 1..Len(terms) :
        i < j => \/ tuples[terms[i].var].time < tuples[terms[j].var].time
                 \/ /\ tuples[terms[i].var].time = tuples[terms[j].var].time
                    /\ terms[i].var < terms[j].var

SellTimes == { agreements[i].time : i \in Sells }

\* the c-th sell time in ascending order
NthSellTime(c) == CHOOSE T \in SellTimes : Cardinality({ u \in SellTimes : u < T }) = c - 1

\* The sum has one term for each agreement of the side whose time is in
\* times, with its quantity as coefficient, and no other term.
SumIsExactly(terms, tuples, times) ==
    /\ TermVars(terms) = { k \in 1..Len(tuples) : tuples[k].time \in times }
    /\ Len(terms) = Cardinality(TermVars(terms))
    /\ \A i \in 1..Len(terms) : terms[i].coef = tuples[terms[i].var].quantity

EarlierTimes(T) == { u \in { agreements[i].time : i \in 1..Len(agreements) } : u < T }

\* C23: the ILP of sign has exactly one constraint per distinct sell time
\* T, in ascending order of T: the sells of time T on the left, every buy
\* of a time before T once in the middle and no buy of time T or later,
\* every sell of a time before T once on the right.
C23_OneConstraintPerSellTime ==
    SignSolved =>
        \A parts \in {Parts} :
           LET constraints == sign_out.model[1].ilp.constraints
           IN  /\ Len(constraints) = Cardinality(SellTimes)
               /\ \A c \in 1..Len(constraints) :
                     \A T \in {NthSellTime(c)} :
                        /\ SumIsExactly(constraints[c].left, parts.sell, {T})
                        /\ SumIsExactly(constraints[c].middle, parts.buy, EarlierTimes(T))
                        /\ SumIsExactly(constraints[c].right, parts.sell, EarlierTimes(T))

\* Two sell times and a buy of the first sell time: it is no part of the
\* first constraint and is part of the second, with the first sell.
C23_Witness ==
    /\ SignSolved
    /\ Len(sign_out.model[1].ilp.constraints) = 2
    /\ Len(sign_out.model[1].ilp.constraints[2].right) > 0
    /\ \E k \in 1..Len(Parts.buy) :
          /\ Parts.buy[k].time = NthSellTime(1)
          /\ k \notin TermVars(sign_out.model[1].ilp.constraints[1].middle)
          /\ k \in TermVars(sign_out.model[1].ilp.constraints[2].middle)

(***************************************************************************)
(* The signing of greedy_signer, restated on the positions of the input.   *)
(***************************************************************************)
\* q * p * trust of the agreement at position i, the trust being that of
\* the partner who is not the agent
Worth(i) ==
    LET a == agreements[i]
        other == IF a.partners[1] = AGENT_ID THEN a.partners[2] ELSE a.partners[1]
    IN  a.quantity * a.unit_price * trust_probabilities[other]

RECURSIVE WorthSum(_)
WorthSum(S) ==
    IF S = {} THEN 0
    ELSE LET i == CHOOSE x \in S : TRUE IN Worth(i) + WorthSum(S \ {i})

GreedySignedBuys == { i \in Buys : greedy_out.list_of_signatures[i] = AGENT_ID }

GreedySignedSells == { i \in Sells : greedy_out.list_of_signatures[i] = AGENT_ID }

\* sell i is considered before sell j: descending worth, then input order
SellGoesFirst(i, j) == Worth(i) > Worth(j) \/ (Worth(i) = Worth(j) /\ i < j)

\* buy i is considered before buy j: ascending worth, then input order
BuyGoesFirst(i, j) == Worth(i) < Worth(j) \/ (Worth(i) = Worth(j) /\ i < j)

DeliveredBefore(b, s) == agreements[b].time < agreements[s].time

\* the buys of the whole input cover sell s
Coverable(s) ==
    QuantitySum(agreements, { b \in Buys : DeliveredBefore(b, s) }) >= agreements[s].quantity

\* of the buys delivered before s, in the order of the buys, the shortest
\* leading part that covers s
CheapestCover(s) ==
    { b \in Buys :
        /\ DeliveredBefore(b, s)
        /\ QuantitySum(agreements, { c \in Buys : DeliveredBefore(c, s) /\ BuyGoesFirst(c, b) })
              < agreements[s].quantity }

\* C24: greedy_signer considers the sells in descending and the buys in
\* ascending q*p*trust: the first sell of that order which the buys can
\* cover is signed with the cheapest buys that cover it, and the sells
\* before it are skipped and leave the pool as it was.  The signed buys
\* divide among the signed sells so that each sell has buys of an earlier
\* time for at least its quantity, no buy serving two sells and no buy
\* signed for a sell that is not signed.  The profit is the worth of the
\* signed sells minus the worth of the signed buys.
C24_GreedyCoversAndProfit ==
    (greedy_out # NotRun /\ greedy_out.status = "returned") =>
        /\ \E f \in [GreedySignedBuys -> GreedySignedSells] :
              /\ \A b \in GreedySignedBuys : DeliveredBefore(b, f[b])
              /\ \A s \in GreedySignedSells :
                    QuantitySum(agreements, { b \in GreedySignedBuys : f[b] = s })
                      >= agreements[s].quantity
        /\ greedy_out.profit = WorthSum(GreedySignedSells) - WorthSum(GreedySignedBuys)
        /\ \A s \in Sells : ~Coverable(s) => s \notin GreedySignedSells
        /\ \A s \in Sells :
              (Coverable(s) /\ \A r \in Sells : SellGoesFirst(r, s) => ~Coverable(r))
                 => /\ s \in GreedySignedSells
                    /\ CheapestCover(s) \subseteq GreedySignedBuys
                    /\ Cardinality(GreedySignedSells) = 1 => GreedySignedBuys = CheapestCover(s)

\* A sell of quantity 2 comes first and is skipped after the only buy
\* before it was accumulated; that buy then covers a later sell.
C24_Witness ==
    /\ greedy_out # NotRun
    /\ greedy_out.status = "returned"
    /\ \E r, s \in Sells : \E b \in Buys :
          /\ SellGoesFirst(r, s)
          /\ DeliveredBefore(b, r)
          /\ r \notin GreedySignedSells
          /\ s \in GreedySignedSells
          /\ b \in GreedySignedBuys

(***************************************************************************)
(* The inventory of a returned business plan.                              *)
(***************************************************************************)
\* target quantities bought minus sold over the times 0..t
RECURSIVE PlanInventory(_)
PlanInventory(t) ==
    IF t < 0 THEN 0
    ELSE PlanInventory(t - 1) + bp_out.buy_plan[t] - bp_out.sell_plan[t]

ReportedZero == {0, 1}

ReportedOne == {Unit - 1, Unit, Unit + 1}

ReportedValues(q_max) ==
    { v \in [Targets(q_max) -> ReportedZero \cup ReportedOne] :
        Cardinality({ k \in Targets(q_max) : v[k] \in ReportedOne }) <= 1 }

InitReadBack ==
    /\ SignerIdle
    /\ resign_out = NotRun
    /\ sign_again = NotRun
    /\ greedy_again = NotRun
    /\ me_in = NoInput
    /\ me_out = NotRun
    /\ bp_in = NoInput
    /\ bp_out = NotRun
    /\ bp_status = "not_run"
    /\ \E q_max \in 1..MaxQ :
          rb_in \in [q_max : {q_max}, inn : ReportedValues(q_max), out : ReportedValues(q_max)]
    /\ rb_out = NotRun

ReadPlan ==
    /\ rb_in # NoInput
    /\ rb_out = NotRun
    /\ rb_out' = [status |-> "returned",
                  buy |-> read_values(rb_in.inn, rb_in.q_max),
                  sell |-> read_values(rb_in.out, rb_in.q_max)]
    /\ UNCHANGED <<signer_vars, resign_out, me_in, me_out, bp_in, bp_out, bp_status, again_vars, rb_in>>

NextReadBack == ReadPlan

SpecReadBack == InitReadBack /\ [][NextReadBack]_vars

\* round(x) for a reported value x = n / Unit, which is never half-way
Rounded(n) == (2 * n + Unit) \div (2 * Unit)

RoundedSum(values, q_max) ==
    SumOver([k \in Targets(q_max) |-> k * Rounded(values[k])], Targets(q_max))

\* C26: the plan entries are the sums over k of k * round(b[t,k]) and of
\* k * round(s[t,k]): each variable is rounded to the nearest integer
\* before it is multiplied by k, so a variable reported as 0.9999 for
\* target k contributes k.
C26_ReadBackRounds ==
    rb_out # NotRun =>
        /\ rb_out.buy = RoundedSum(rb_in.inn, rb_in.q_max)
        /\ rb_out.sell = RoundedSum(rb_in.out, rb_in.q_max)

(***************************************************************************)
(* Signing nothing, and the sign of the profits.                           *)
(***************************************************************************)
\* the ILP that sign builds for the agreements of the state
SignerIlp ==
    LET buy_sub == with_sub_index(Parts.buy)
        sell_sub == with_sub_index(Parts.sell)
    IN  build_ilp(sorted(buy_sub, time_key(buy_sub), FALSE),
                  sorted(sell_sub, time_key(sell_sub), FALSE))

\* sign, the check of its plan and greedy_signer on the valid lists, with
\* prices of 0 among them
InitProfit ==
    /\ agreements \in SeqsUpTo(ValidAgreements, MaxLen)
    /\ trust_probabilities = DEFAULT_TRUST_PROB
    /\ sign_out = NotRun
    /\ greedy_out = NotRun
    /\ sign_check = "not_run"
    /\ greedy_check = "not_run"
    /\ PlanIdle

NextProfit ==
    \/ SignEmpty
    \/ SignNoSell
    \/ SignSolve
    \/ CheckSign
    \/ GreedySigner

SpecProfit == InitProfit /\ [][NextProfit]_vars

SignNothing(model) == [bs |-> [i \in 1..model.n_buy |-> 0], ss |-> [j \in 1..model.n_sell |-> 0]]

WellFormedList == \A i \in 1..Len(agreements) : ~Malformed(agreements[i])

\* C27: for every valid list with at least one sell, signing nothing
\* satisfies every constraint of the signer ILP, so the ILP is feasible;
\* sign returns a solution of it, never a failure, and the profit it
\* returns is at least 0.  The profit is null only for an objective
\* without any term, whose optimum is 0.  (That the profit of
\* greedy_signer can be negative is the witness.)
C27_SignProfitNotNegative ==
    (WellFormedList /\ Sells # {}) =>
        /\ sign_out = NotRun =>
              \A model \in {SignerIlp} : feasible(model, SignNothing(model))
        /\ sign_out # NotRun =>
              /\ SignSolved
              /\ feasible(sign_out.model[1].ilp, SignNothing(sign_out.model[1].ilp))
              /\ sign_out.profit # None => sign_out.profit[1] >= 0
              /\ sign_out.profit = None =>
                    /\ sign_out.model[1].ilp.objective_sell = <<>>
                    /\ sign_out.model[1].ilp.objective_buy = <<>>

\* sign signs nothing and reports the profit 0 on a list on which
\* greedy_signer makes a loss
C27_Witness ==
    /\ WellFormedList
    /\ SignSolved
    /\ sign_out.profit = Some(0)
    /\ AllNone(sign_out.list_of_signatures)
    /\ greedy_out # NotRun
    /\ greedy_out.status = "returned"
    /\ greedy_out.profit < 0

(***************************************************************************)
(* Pinned time steps and commitment floors.                                *)
(***************************************************************************)
\* the time steps whose targets lines 189-206 pin
PinnedSteps == 0..(Max(bp_in.step, 1) - 1)

\* the commitment the model is built with for the sales of time i
EffectiveCommitment(i) == committed(commitments(bp_in.C_out), i)

\* P(Q_out[i] < k), in units of 1/One
MassBelow(i, k) ==
    SumOver([x \in DOMAIN bp_in.Q_out[i] |-> IF x < k THEN bp_in.Q_out[i][x] ELSE 0],
            DOMAIN bp_in.Q_out[i])

\* the pinned sell target of time i cannot meet its own floor
PinnedBelowFloor(i) ==
    /\ EffectiveCommitment(i) > 0
    /\ \/ EffectiveCommitment(i) >= bp_in.q_max
       \/ MassBelow(i, EffectiveCommitment(i)) > 0

\* C28: at a pinned time step i < max(step, 1) the sell target is forced
\* to the effective commitment k while the floor requires
\* E_out[i][k] >= k, so the model is infeasible whenever k > 0 and
\* P(Q_out[i] < k) > 0 or k >= q_max; with no commitments supplied the
\* model is feasible and its optimal objective is at least 0.
C28_PinnedFloorInfeasible ==
    PlanReturned =>
        /\ (\E i \in PinnedSteps : PinnedBelowFloor(i)) => bp_status.status = "Infeasible"
        /\ NoCommitments =>
              /\ bp_status.status = "Optimal"
              /\ bp_status.objective[1] >= 0

\* The sales of time 1 are pinned to the target 1, which is within the
\* range, and the quantity sold is 0 with positive probability.
C28_Witness ==
    /\ PlanReturned
    /\ bp_in.step = 2
    /\ bp_in.optimistic = FALSE
    /\ EffectiveCommitment(1) = 1
    /\ bp_in.q_max > 1
    /\ MassBelow(1, 1) > 0
    /\ TotalMass(bp_in.Q_out[1]) - MassBelow(1, 1) > 0
    /\ bp_status.status = "Infeasible"
====
